---- MODULE Spec2Model ----
(***************************************************************************)
(* Model of package latest (src/latest.go): NewFeed, the coalescing relay  *)
(* with its worker goroutine, and Broadcast, the RWMutex-guarded map of    *)
(* one feed per subscriber.                                                *)
(*                                                                         *)
(* Channels are unbuffered: a send and a receive are one joint step.  A    *)
(* select whose two cases can both proceed takes either one.  Values are   *)
(* numbered by submission: the k-th submission carries the value k, and    *)
(* Nil is the zero value a receive from a closed channel yields.           *)
(***************************************************************************)
EXTENDS Integers, Sequences, FiniteSets, TLC

\* ------------------------------------------------------------------ bounds
MaxFeeds == 2
MaxUpd == 2
MaxSubmit == 5
MaxRecv == 2

Procs == {"p1", "p2"}
Sinks == {"s1", "s2"}
Producer == "p1"
Feeds == 1..MaxFeeds
Nil == 0
NoSink == "-"
EmptyMap == [s \in {} |-> 0]

VARIABLES
    \* the relays (NewFeed)
    wpc,        \* worker position: "none" | "await" (line 18) | "select" (line 23) | "done"
    latest,     \* the worker's variable latest
    closes,     \* number of close(feed) calls made on each feed
    sinkOf,     \* the notify channel each worker sends on
    \* the Broadcast
    feeds,      \* b.feeds: notify -> feed
    feedsNil,   \* b.feeds == nil
    rlocks,     \* RWMutex: number of read locks held
    wlock,      \* RWMutex: write lock held
    \* the callers of the Broadcast
    pc,         \* position of each calling goroutine
    arg,        \* its notify argument
    val,        \* its v argument (Update)
    spare,      \* its local feed (Subscribe, Unsubscribe; 0 when !ok)
    todo,       \* feeds its range loop has yet to visit (Update), or began with (UnsubscribeAll)
    \* history
    received,   \* per sink, what each receive <-notify returned
    nfeeds,     \* feeds made so far
    nsub,       \* submissions made so far: sends on a relay alone, Update calls on a Broadcast
    unsubbed,   \* an Unsubscribe(sink) that removed sink returned, and Subscribe(sink) was not called since
    rivals      \* the Update calls in progress when the last Update began, itself included
                \* (kept by UpdateRLockNoted only)

vars == <<wpc, latest, closes, sinkOf, feeds, feedsNil, rlocks, wlock, pc, arg, val,
          spare, todo, received, nfeeds, nsub, unsubbed, rivals>>

relayVars == <<wpc, latest, closes, sinkOf>>
mapVars == <<feeds, feedsNil>>
lockVars == <<rlocks, wlock>>
callVars == <<pc, arg, val, spare, todo>>
histVars == <<received, nfeeds, nsub, unsubbed, rivals>>

\* ------------------------------------------------------------------ channels
Closed(f) == closes[f] > 0

Range(m) == {m[s] : s \in DOMAIN m}

\* close(feed)
CloseAll(fs) == closes' = [f \in Feeds |-> IF f \in fs THEN closes[f] + 1 ELSE closes[f]]

\* ------------------------------------------------------------------ NewFeed
\* feed := make(chan interface{}); go func() {...}(); the worker starts at line 18
NewFeed(f, notify) ==
    /\ wpc' = [wpc EXCEPT ![f] = "await"]
    /\ latest' = [latest EXCEPT ![f] = Nil]
    /\ sinkOf' = [sinkOf EXCEPT ![f] = notify]

\* the worker is at a receive from feed: line 18, or the first case of the select
MutRecvReady(f) == wpc[f] = "await"
RecvReady(f) == wpc[f] \in {"await", "select"}

\* lines 20-23: if !ok { return }, else enter the select
MutAfterRecv(ok) == "select"
MutAfterRecvDrop(ok) == IF ~ok THEN "done" ELSE "await"
AfterRecv(ok) == IF ~ok THEN "done" ELSE "select"

\* latest, ok = <-feed (line 18 and line 24): the new value replaces the pending one
MutAdopt(old, new) == IF old = Nil THEN new ELSE old
Adopt(old, new) == new

WorkerRecv(f, v, ok) ==
    /\ RecvReady(f)
    /\ latest' = [latest EXCEPT ![f] = Adopt(latest[f], v)]
    /\ wpc' = [wpc EXCEPT ![f] = AfterRecv(ok)]

\* feed <- v, met by the worker's receive
SendTo(f, v) ==
    /\ ~Closed(f)
    /\ WorkerRecv(f, v, TRUE)

\* a receive from the closed feed: the zero value and ok = false
RecvClosed(f) ==
    /\ Closed(f)
    /\ WorkerRecv(f, Nil, FALSE)
    /\ UNCHANGED <<closes, sinkOf, mapVars, lockVars, callVars, histVars>>

\* what a receive on notify is recorded as: the value, and the feed it came from
Entry(f) == [val |-> latest[f], feed |-> f]

\* receives made so far, on all sinks
RECURSIVE SumLen(_)
SumLen(S) == IF S = {} THEN 0
             ELSE LET s == CHOOSE x \in S : TRUE IN Len(received[s]) + SumLen(S \ {s})
NReceived == SumLen(Sinks)

\* line 27, case notify <- latest, met by a consumer's receive <-notify that begins
\* now; then the breaks of lines 28 and 30 lead back to line 18
MutAfterDeliver == "select"
AfterDeliver == "await"

Deliver(f) ==
    /\ wpc[f] = "select"
    /\ NReceived < MaxRecv
    /\ received' = [received EXCEPT ![sinkOf[f]] = Append(@, Entry(f))]
    /\ wpc' = [wpc EXCEPT ![f] = AfterDeliver]
    /\ latest' = [latest EXCEPT ![f] = Nil]
    /\ UNCHANGED <<closes, sinkOf, mapVars, lockVars, callVars, nfeeds, nsub, unsubbed,
                   rivals>>

\* ------------------------------------------------------------------ a relay alone
InitCommon ==
    /\ closes = [f \in Feeds |-> 0]
    /\ feeds = EmptyMap
    /\ feedsNil = TRUE
    /\ rlocks = 0
    /\ wlock = FALSE
    /\ pc = [p \in Procs |-> "idle"]
    /\ arg = [p \in Procs |-> NoSink]
    /\ val = [p \in Procs |-> Nil]
    /\ spare = [p \in Procs |-> 0]
    /\ todo = [p \in Procs |-> {}]
    /\ received = [s \in Sinks |-> <<>>]
    /\ nsub = 0
    /\ unsubbed = [s \in Sinks |-> FALSE]
    /\ rivals = {}

\* update := latest.NewFeed(notify), as in ExampleNewFeed
InitRelay ==
    /\ InitCommon
    /\ wpc = [f \in Feeds |-> IF f = 1 THEN "await" ELSE "none"]
    /\ latest = [f \in Feeds |-> Nil]
    /\ sinkOf = [f \in Feeds |-> IF f = 1 THEN "s1" ELSE NoSink]
    /\ nfeeds = 1

\* update <- v by the owner of the feed
Submit ==
    /\ nsub < MaxSubmit
    /\ nsub' = nsub + 1
    /\ SendTo(1, nsub + 1)
    /\ UNCHANGED <<closes, sinkOf, mapVars, lockVars, callVars, received, nfeeds, unsubbed,
                   rivals>>

\* close(update) by the owner of the feed, once
CloseInput ==
    /\ ~Closed(1)
    /\ CloseAll({1})
    /\ UNCHANGED <<wpc, latest, sinkOf, mapVars, lockVars, callVars, histVars>>

NextRelay ==
    \/ Submit
    \/ CloseInput
    \/ Deliver(1)
    \/ RecvClosed(1)

SpecRelay == InitRelay /\ [][NextRelay]_vars

\* the worker goroutine is scheduled fairly and a consumer receives from the sink
FairSpecRelay == SpecRelay /\ WF_vars(Deliver(1)) /\ WF_vars(RecvClosed(1))

\* the worker goroutine is scheduled fairly; the consumer may never receive
FairSpecWorker == SpecRelay /\ WF_vars(RecvClosed(1))

\* ------------------------------------------------------------------ Broadcast
\* var b latest.Broadcast: the zero value, no feed made yet
Init ==
    /\ InitCommon
    /\ wpc = [f \in Feeds |-> "none"]
    /\ latest = [f \in Feeds |-> Nil]
    /\ sinkOf = [f \in Feeds |-> NoSink]
    /\ nfeeds = 0

\* SubscriptionCount: len(b.feeds), read under the read lock
SubscriptionCount == Cardinality(DOMAIN feeds)

\* b.Update(v) from line 49, b.RLock(), to the start of the range over b.feeds;
\* the calls are numbered 1, 2, ... in this order and v is the number
UpdateRLock(p) ==
    /\ pc[p] = "idle"
    /\ nsub < MaxUpd
    /\ ~wlock
    /\ rlocks' = rlocks + 1
    /\ nsub' = nsub + 1
    /\ val' = [val EXCEPT ![p] = nsub + 1]
    /\ todo' = [todo EXCEPT ![p] = Range(feeds)]
    /\ pc' = [pc EXCEPT ![p] = "fanout"]
    /\ UNCHANGED <<relayVars, mapVars, wlock, arg, spare, received, nfeeds, unsubbed,
                   rivals>>

\* line 53, feed <- v, for one more feed of the range, in any order
UpdateSend(p, f) ==
    /\ pc[p] = "fanout"
    /\ f \in todo[p]
    /\ SendTo(f, val[p])
    /\ todo' = [todo EXCEPT ![p] = @ \ {f}]
    /\ UNCHANGED <<closes, sinkOf, mapVars, lockVars, pc, arg, val, spare, histVars>>

\* the range is over; the deferred b.RUnlock() of line 50
UpdateReturn(p) ==
    /\ pc[p] = "fanout"
    /\ todo[p] = {}
    /\ rlocks' = rlocks - 1
    /\ pc' = [pc EXCEPT ![p] = "idle"]
    /\ val' = [val EXCEPT ![p] = Nil]
    /\ UNCHANGED <<relayVars, mapVars, wlock, arg, spare, todo, histVars>>

\* b.Subscribe(notify) is called; line 60, feed := NewFeed(notify), before the lock
SubscribeNewFeed(p, s) ==
    /\ pc[p] = "idle"
    /\ nfeeds < MaxFeeds
    /\ nfeeds' = nfeeds + 1
    /\ NewFeed(nfeeds + 1, s)
    /\ spare' = [spare EXCEPT ![p] = nfeeds + 1]
    /\ arg' = [arg EXCEPT ![p] = s]
    /\ pc' = [pc EXCEPT ![p] = "sub_lock"]
    /\ unsubbed' = [unsubbed EXCEPT ![s] = FALSE]
    /\ UNCHANGED <<closes, mapVars, lockVars, val, todo, received, nsub, rivals>>

\* b.Lock(): no reader and no writer holds the lock
MutLockFree == ~wlock
LockFree == rlocks = 0 /\ ~wlock

\* line 62, b.Lock() of Subscribe
SubscribeLock(p) ==
    /\ pc[p] = "sub_lock"
    /\ LockFree
    /\ wlock' = TRUE
    /\ pc' = [pc EXCEPT ![p] = "sub_crit"]
    /\ UNCHANGED <<relayVars, mapVars, rlocks, arg, val, spare, todo, histVars>>

\* lines 65-74 of Subscribe: the map after them
MutSubscribeFeeds(p) ==
    [s \in DOMAIN feeds \cup {arg[p]} |-> IF s = arg[p] THEN spare[p] ELSE feeds[s]]
SubscribeFeeds(p) ==
    IF arg[p] \in DOMAIN feeds
    THEN feeds
    ELSE [s \in DOMAIN feeds \cup {arg[p]} |-> IF s = arg[p] THEN spare[p] ELSE feeds[s]]

\* lines 65-74 of Subscribe, under the lock
SubscribeBody(p) ==
    /\ pc[p] = "sub_crit"
    /\ feeds' = SubscribeFeeds(p)
    /\ IF arg[p] \in DOMAIN feeds
       THEN CloseAll({spare[p]}) /\ UNCHANGED feedsNil
       ELSE feedsNil' = FALSE /\ UNCHANGED closes
    /\ pc' = [pc EXCEPT ![p] = "sub_ret"]
    /\ UNCHANGED <<wpc, latest, sinkOf, lockVars, arg, val, spare, todo, histVars>>

\* b.Unsubscribe(notify) from line 79, b.Lock()
UnsubscribeLock(p, s) ==
    /\ pc[p] = "idle"
    /\ LockFree
    /\ wlock' = TRUE
    /\ arg' = [arg EXCEPT ![p] = s]
    /\ pc' = [pc EXCEPT ![p] = "unsub_crit"]
    /\ UNCHANGED <<relayVars, mapVars, rlocks, val, spare, todo, histVars>>

\* lines 82-86 of Unsubscribe: the feeds it closes, none when !ok
MutUnsubscribeClosed(p) ==
    IF arg[p] \in DOMAIN feeds THEN {feeds[arg[p]]} ELSE Range(feeds)
UnsubscribeClosed(p) ==
    IF arg[p] \in DOMAIN feeds THEN {feeds[arg[p]]} ELSE {}

\* lines 82-86 of Unsubscribe, under the lock
UnsubscribeBody(p) ==
    /\ pc[p] = "unsub_crit"
    /\ IF arg[p] \in DOMAIN feeds
       THEN /\ feeds' = [s \in DOMAIN feeds \ {arg[p]} |-> feeds[s]]
            /\ spare' = [spare EXCEPT ![p] = feeds[arg[p]]]
       ELSE UNCHANGED <<feeds, spare>>
    /\ CloseAll(UnsubscribeClosed(p))
    /\ pc' = [pc EXCEPT ![p] = "unsub_ret"]
    /\ UNCHANGED <<wpc, latest, sinkOf, feedsNil, lockVars, arg, val, todo, histVars>>

\* b.UnsubscribeAll() from line 91, b.Lock(); todo keeps the feeds registered then
UnsubscribeAllLock(p) ==
    /\ pc[p] = "idle"
    /\ LockFree
    /\ wlock' = TRUE
    /\ todo' = [todo EXCEPT ![p] = Range(feeds)]
    /\ pc' = [pc EXCEPT ![p] = "all_crit"]
    /\ UNCHANGED <<relayVars, mapVars, rlocks, arg, val, spare, histVars>>

\* lines 94-97 of UnsubscribeAll: the feeds the loop closes, and the map after it
MutUnsubscribeAllClosed ==
    IF DOMAIN feeds = {} THEN {} ELSE {feeds[CHOOSE s \in DOMAIN feeds : TRUE]}
UnsubscribeAllClosed == Range(feeds)

MutUnsubscribeAllFeeds == feeds
UnsubscribeAllFeeds == [s \in (DOMAIN feeds) \ (DOMAIN feeds) |-> feeds[s]]

\* lines 94-97 of UnsubscribeAll, under the lock
UnsubscribeAllBody(p) ==
    /\ pc[p] = "all_crit"
    /\ feeds' = UnsubscribeAllFeeds
    /\ CloseAll(UnsubscribeAllClosed)
    /\ pc' = [pc EXCEPT ![p] = "all_ret"]
    /\ UNCHANGED <<wpc, latest, sinkOf, feedsNil, lockVars, arg, val, spare, todo,
                   histVars>>

\* the deferred b.Unlock() of lines 63, 80 and 92, and the return
Unlock(p) ==
    /\ pc[p] \in {"sub_ret", "unsub_ret", "all_ret"}
    /\ wlock' = FALSE
    /\ pc' = [pc EXCEPT ![p] = "idle"]
    /\ arg' = [arg EXCEPT ![p] = NoSink]
    /\ spare' = [spare EXCEPT ![p] = 0]
    /\ todo' = [todo EXCEPT ![p] = {}]
    /\ unsubbed' = IF pc[p] = "unsub_ret" /\ spare[p] # 0
                   THEN [unsubbed EXCEPT ![arg[p]] = TRUE]
                   ELSE unsubbed
    /\ UNCHANGED <<relayVars, mapVars, rlocks, val, received, nfeeds, nsub, rivals>>

\* a step of a call in progress
CallStep(p) ==
    \/ \E f \in Feeds : UpdateSend(p, f)
    \/ UpdateReturn(p)
    \/ SubscribeLock(p)
    \/ SubscribeBody(p)
    \/ UnsubscribeBody(p)
    \/ UnsubscribeAllBody(p)
    \/ Unlock(p)

\* the worker goroutines and the consumers
Background ==
    \/ \E f \in Feeds : RecvClosed(f)
    \/ \E f \in Feeds : Deliver(f)

\* any goroutine calls any method
Next ==
    \/ \E p \in Procs : UpdateRLock(p)
    \/ \E p \in Procs, s \in Sinks : SubscribeNewFeed(p, s)
    \/ \E p \in Procs, s \in Sinks : UnsubscribeLock(p, s)
    \/ \E p \in Procs : UnsubscribeAllLock(p)
    \/ \E p \in Procs : CallStep(p)
    \/ Background

Spec == Init /\ [][Next]_vars

\* UpdateRLock, noting in rivals which Update calls hold the read lock with it
UpdateRLockNoted(p) ==
    /\ pc[p] = "idle"
    /\ nsub < MaxUpd
    /\ ~wlock
    /\ rlocks' = rlocks + 1
    /\ nsub' = nsub + 1
    /\ val' = [val EXCEPT ![p] = nsub + 1]
    /\ todo' = [todo EXCEPT ![p] = Range(feeds)]
    /\ pc' = [pc EXCEPT ![p] = "fanout"]
    /\ rivals' = {val[q] : q \in {r \in Procs : pc[r] = "fanout"}} \cup {nsub + 1}
    /\ UNCHANGED <<relayVars, mapVars, wlock, arg, spare, received, nfeeds, unsubbed>>

\* any goroutine calls any method, the overlap of the Update calls is noted
NextNoted ==
    \/ \E p \in Procs : UpdateRLockNoted(p)
    \/ \E p \in Procs, s \in Sinks : SubscribeNewFeed(p, s)
    \/ \E p \in Procs, s \in Sinks : UnsubscribeLock(p, s)
    \/ \E p \in Procs : UnsubscribeAllLock(p)
    \/ \E p \in Procs : CallStep(p)
    \/ Background

SpecNoted == Init /\ [][NextNoted]_vars

\* one producer calls Update, one call after the other; another goroutine
\* subscribes and unsubscribes
NextSeq ==
    \/ UpdateRLock(Producer)
    \/ \E p \in Procs \ {Producer}, s \in Sinks : SubscribeNewFeed(p, s)
    \/ \E p \in Procs \ {Producer}, s \in Sinks : UnsubscribeLock(p, s)
    \/ \E p \in Procs \ {Producer} : UnsubscribeAllLock(p)
    \/ \E p \in Procs : CallStep(p)
    \/ Background

SpecSeq == Init /\ [][NextSeq]_vars

\* the calling goroutines are scheduled fairly, and with them the workers' side of
\* each send, which is one step with the caller's; nothing is assumed of the
\* consumers, which may never receive
FairSpecSeq == SpecSeq /\ \A p \in Procs : WF_vars(CallStep(p))

\* a subscriber that never consumes: nothing is ever received from SlowSink, the
\* consumers of the other sinks receive
SlowSink == "s1"

DeliverOther(f) ==
    /\ sinkOf[f] # SlowSink
    /\ Deliver(f)

NextSlow ==
    \/ UpdateRLock(Producer)
    \/ \E p \in Procs \ {Producer}, s \in Sinks : SubscribeNewFeed(p, s)
    \/ \E p \in Procs \ {Producer}, s \in Sinks : UnsubscribeLock(p, s)
    \/ \E p \in Procs \ {Producer} : UnsubscribeAllLock(p)
    \/ \E p \in Procs : CallStep(p)
    \/ \E f \in Feeds : RecvClosed(f)
    \/ \E f \in Feeds : DeliverOther(f)

SpecSlow == Init /\ [][NextSlow]_vars

\* the calling goroutines and the workers of the other sinks are scheduled fairly,
\* and the consumers of the other sinks receive
FairSpecSlow ==
    /\ SpecSlow
    /\ \A p \in Procs : WF_vars(CallStep(p))
    /\ \A f \in Feeds : WF_vars(DeliverOther(f))

\* the worker goroutines are scheduled fairly; nothing is assumed of the callers,
\* nor of the consumers: none receives from SlowSink, the others may or may not
FairSpecWorkers == SpecSlow /\ \A f \in Feeds : WF_vars(RecvClosed(f))

\* ------------------------------------------------------------------ claims on a relay alone
LastVal(s) == IF Len(received[s]) = 0 THEN Nil ELSE received[s][Len(received[s])].val
Delivered(s, v) == \E i \in 1..Len(received[s]) : received[s][i].val = v

\* C1: every value received on the sink of a relay was submitted before (it is one
\* of the submissions 1..k made by then), and no receive returns an earlier
\* submission than a receive before it did; intermediate values may be skipped.
C1_MonotonicDelivery ==
    /\ \A i \in 1..Len(received["s1"]) : received["s1"][i].val \in 1..nsub
    /\ \A i, j \in 1..Len(received["s1"]) :
          i < j => received["s1"][i].val <= received["s1"][j].val

\* two receives, the first returned submission 1, the second submission 3: 2 was skipped
C1_Witness ==
    /\ Len(received["s1"]) = 2
    /\ received["s1"][1].val = 1
    /\ received["s1"][2].val = 3

\* C2: latest wins. An open relay holds a pending value exactly when something was
\* submitted since the last receive, the pending value is the last submission, and
\* a receive returns the last submission made before it.
C2_LatestWins ==
    /\ [](wpc[1] = "select" => latest[1] = nsub)
    /\ [](~Closed(1) => (wpc[1] = "select" <=> nsub > LastVal("s1")))
    /\ [][Deliver(1) => LastVal("s1")' = nsub]_vars

\* scenario A: 1, 2, 3 submitted, a receive returns 3; 4, 5 submitted, a receive returns 5
C2_Witness ==
    /\ Len(received["s1"]) = 2
    /\ received["s1"][1].val = 3
    /\ received["s1"][2].val = 5
    /\ ~Closed(1)

\* C4: when v is the last submission, is undelivered, and the consumer still
\* receives from the sink, then a receive returns v, unless the input is closed or a
\* newer value is submitted first.
C4_EventualDelivery ==
    \A v \in 1..MaxSubmit :
        (nsub = v /\ ~Delivered("s1", v) /\ NReceived < MaxRecv)
            ~> (Delivered("s1", v) \/ Closed(1) \/ nsub > v)

\* the last submission, 3, was delivered by the second receive of an open relay
C4_Witness ==
    /\ ~Closed(1)
    /\ nsub = 3
    /\ Len(received["s1"]) = 2
    /\ received["s1"][2].val = 3
    /\ wpc[1] = "await"

\* C5: no receive that begins after the input was closed returns a value: the
\* worker makes no delivery once the input is closed.
C5_NoDeliveryAfterClose == [][Closed(1) => ~Deliver(1)]_vars

\* C11: once the input is closed the worker terminates, whether it waited for a
\* first value or held a pending one, and whether or not anything is received from
\* the sink; a terminated worker stays terminated, and only a close terminates it.
C11_WorkerTerminates ==
    /\ Closed(1) ~> (wpc[1] = "done")
    /\ [][wpc[1] = "done" => wpc'[1] = "done"]_vars
    /\ [](wpc[1] = "done" => Closed(1))

\* the worker terminated with a value pending that was never received
C11_Witness ==
    /\ wpc[1] = "done"
    /\ nsub = 2
    /\ received["s1"] = <<>>

\* ------------------------------------------------------------------ claims on a Broadcast
\* feed f is the one registered for its sink
Registered(f) == sinkOf[f] \in DOMAIN feeds /\ feeds[sinkOf[f]] = f
Updating == {p \in Procs : pc[p] = "fanout"}
\* Update calls that returned
NRet == nsub - Cardinality(Updating)

\* C3: a send never waits for a consumer: every feed an Update has yet to send to
\* is open, the worker of every open feed is at a receive from it, every Update that
\* holds the read lock returns, and every write lock is released, even if nothing
\* is ever received.
C3_UpdateReturns ==
    /\ [](\A p \in Updating : \A f \in todo[p] : ~Closed(f) /\ RecvReady(f))
    /\ [](\A f \in Feeds : (wpc[f] # "none" /\ ~Closed(f)) => RecvReady(f))
    /\ \A p \in Procs : (pc[p] = "fanout") ~> (pc[p] = "idle")
    /\ wlock ~> ~wlock

\* both Updates returned, nothing was ever received, and a worker holds the latest
C3_Witness ==
    /\ nsub = 2
    /\ \A p \in Procs : pc[p] = "idle"
    /\ \A s \in Sinks : received[s] = <<>>
    /\ \E f \in Feeds : Registered(f) /\ wpc[f] = "select" /\ latest[f] = 2

\* C12: with nothing ever received from s1, every Update returns, and when the
\* value of the latest Update is pending at the relay registered for s2, whose
\* consumer still receives, a receive on s2 returns it, unless a newer Update is
\* made or s2 is unsubscribed first.
C12_SlowSubscriberHarmless ==
    /\ [](received[SlowSink] = <<>>)
    /\ \A p \in Procs : (pc[p] = "fanout") ~> (pc[p] = "idle")
    /\ \A v \in 1..MaxUpd :
          (/\ nsub = v
           /\ "s2" \in DOMAIN feeds
           /\ wpc[feeds["s2"]] = "select"
           /\ latest[feeds["s2"]] = v
           /\ NReceived < MaxRecv)
              ~> (Delivered("s2", v) \/ nsub > v \/ "s2" \notin DOMAIN feeds)

\* both Updates returned; the worker of s1 holds 2, never received, and s2
\* received 1 and then 2
C12_Witness ==
    /\ \A p \in Procs : pc[p] = "idle"
    /\ DOMAIN feeds = {"s1", "s2"}
    /\ wpc[feeds["s1"]] = "select" /\ latest[feeds["s1"]] = 2
    /\ received["s1"] = <<>>
    /\ Len(received["s2"]) = 2
    /\ received["s2"][1].val = 1 /\ received["s2"][2].val = 2

\* C6: once an Unsubscribe(sink) that removed sink has returned, and until
\* Subscribe(sink) is called again, no receive on sink returns a value.
C6_NoDeliveryAfterUnsubscribe ==
    [][\A f \in Feeds : Deliver(f) => ~unsubbed[sinkOf[f]]]_vars

\* C7: on every sink the values received are in the order of the Update calls.
C7_MonotonicPerSink ==
    \A s \in Sinks : \A i, j \in 1..Len(received[s]) :
        i < j => received[s][i].val <= received[s][j].val

\* the value of the last receive on the sink of f, when it came from f; 0 before
\* the first receive on that sink
LastValFrom(f) ==
    LET r == received[sinkOf[f]]
    IN  IF Len(r) = 0 THEN 0
        ELSE IF r[Len(r)].feed = f THEN r[Len(r)].val ELSE MaxUpd + 1

\* C8, as claimed: with Updates made one after the other, a receive on a subscribed
\* sink returns the value of the most recent Update that returned before it,
\* provided an Update returned since the previous receive on that sink.
C8_MostRecentReturned ==
    [][\A f \in Feeds :
         (Deliver(f) /\ sinkOf[f] \in DOMAIN feeds /\ NRet > LastValFrom(f))
             => latest[f] = NRet]_vars

\* C8, amended: with Updates made one after the other, a receive on a subscribed
\* sink that the relay registered for the sink serves returns the value of the most
\* recent Update that returned before it, or, while an Update is in progress,
\* possibly the value of that Update.
C8_MostRecentSent ==
    [][\A f \in Feeds :
         (Deliver(f) /\ Registered(f)) =>
             IF Updating = {} THEN latest[f] = NRet ELSE latest[f] \in {NRet, NRet + 1}]_vars

\* scenario B: Update 1, a receive on s1 returns 1; Update 2, a receive on s2
\* returns 2, whatever s1 received
C8_Witness ==
    /\ \A p \in Procs : pc[p] = "idle"
    /\ DOMAIN feeds = {"s1", "s2"}
    /\ Len(received["s1"]) = 1 /\ received["s1"][1].val = 1
    /\ Len(received["s2"]) = 1 /\ received["s2"][1].val = 2
    /\ latest[feeds["s1"]] = 2

\* C9: Subscribe(sink) of a registered sink leaves the map, the count and every
\* registered relay as they are, and closes the spare feed only; the relay that
\* stays registered is open, with its worker at a receive and sending on sink.
C9_SubscribeIdempotent ==
    /\ [][\A p \in Procs :
            (SubscribeBody(p) /\ arg[p] \in DOMAIN feeds) =>
                /\ feeds' = feeds
                /\ SubscriptionCount' = SubscriptionCount
                /\ wpc' = wpc /\ latest' = latest /\ sinkOf' = sinkOf
                /\ closes' = [closes EXCEPT ![spare[p]] = 1]
                /\ feeds'[arg[p]] # spare[p]]_vars
    /\ [](\A p \in Procs :
            (pc[p] = "sub_ret" /\ Closed(spare[p])) =>
                /\ arg[p] \in DOMAIN feeds
                /\ ~Closed(feeds[arg[p]])
                /\ RecvReady(feeds[arg[p]])
                /\ sinkOf[feeds[arg[p]]] = arg[p])

\* a duplicate Subscribe closed its spare feed; the registered relay still holds
\* its pending value
C9_Witness ==
    \E p \in Procs :
        /\ pc[p] = "sub_ret"
        /\ Closed(spare[p])
        /\ wpc[feeds[arg[p]]] = "select"
        /\ latest[feeds[arg[p]]] = 1

\* C10: when UnsubscribeAll is about to return, the map is empty, the count is 0
\* and every feed that was registered when it took the lock was closed once.
C10_UnsubscribeAll ==
    \A p \in Procs :
        pc[p] = "all_ret" =>
            /\ feeds = EmptyMap
            /\ SubscriptionCount = 0
            /\ \A f \in todo[p] : closes[f] = 1

\* UnsubscribeAll is about to return, having found two feeds registered
C10_Witness ==
    \E p \in Procs : pc[p] = "all_ret" /\ Cardinality(todo[p]) = 2

\* UnsubscribeAll on the zero Broadcast, whose map was never made
C10_WitnessZero ==
    \E p \in Procs : pc[p] = "all_ret" /\ todo[p] = {} /\ feedsNil

\* C13: Unsubscribe(sink) of a sink that is not registered changes nothing: the
\* map (a nil map stays nil), the workers, their pending values, the closed feeds
\* and what was received are as before, and the call returns, releasing the lock.
C13_UnsubscribeUnknown ==
    /\ [][\A p \in Procs :
            (pc[p] = "unsub_crit" /\ arg[p] \notin DOMAIN feeds /\ pc'[p] # pc[p]) =>
                /\ pc'[p] = "unsub_ret"
                /\ spare'[p] = 0
                /\ feeds' = feeds /\ feedsNil' = feedsNil
                /\ wpc' = wpc /\ latest' = latest /\ sinkOf' = sinkOf
                /\ closes' = closes
                /\ received' = received]_vars
    /\ [][\A p \in Procs :
            (pc[p] = "unsub_ret" /\ spare[p] = 0 /\ pc'[p] # pc[p]) =>
                /\ pc'[p] = "idle" /\ ~wlock'
                /\ feeds' = feeds /\ feedsNil' = feedsNil
                /\ wpc' = wpc /\ latest' = latest /\ closes' = closes
                /\ unsubbed' = unsubbed]_vars

\* Unsubscribe("s2") found s2 unregistered, while the relay registered for s1 holds
\* a pending value
C13_Witness ==
    \E p \in Procs :
        /\ pc[p] = "unsub_ret" /\ arg[p] = "s2" /\ spare[p] = 0
        /\ DOMAIN feeds = {"s1"}
        /\ wpc[feeds["s1"]] = "select" /\ latest[feeds["s1"]] = 1
        /\ ~Closed(feeds["s1"])

\* Unsubscribe on the zero Broadcast, whose map was never made
C13_WitnessZero ==
    \E p \in Procs : pc[p] = "unsub_ret" /\ spare[p] = 0 /\ feedsNil

\* goroutines between b.Lock() and b.Unlock() of Subscribe, Unsubscribe, UnsubscribeAll
Writers ==
    {p \in Procs : pc[p] \in {"sub_crit", "sub_ret", "unsub_crit", "unsub_ret",
                               "all_crit", "all_ret"}}

\* C14: while an Update is in its range loop no Subscribe, Unsubscribe or
\* UnsubscribeAll is in its critical section, so the map and the closed feeds do
\* not change; an Update sends its value to the feeds of the map as it was at
\* RLock, to each once and to no other, and returns after the last.
C14_LockDiscipline ==
    /\ [](Updating # {} => Writers = {})
    /\ [](Cardinality(Writers) <= 1)
    /\ [](\A p \in Updating : todo[p] \subseteq Range(feeds))
    /\ [][Updating # {} => (feeds' = feeds /\ closes' = closes)]_vars
    /\ [][\A p \in Procs :
            /\ (pc[p] = "idle" /\ pc'[p] = "fanout") => todo'[p] = Range(feeds)
            /\ (pc[p] = "fanout" /\ pc'[p] = "fanout") =>
                   /\ todo'[p] \subseteq todo[p]
                   /\ \A f \in todo[p] \ todo'[p] : latest'[f] = val[p]
            /\ (pc[p] = "fanout" /\ pc'[p] = "idle") => todo[p] = {}]_vars

\* two Updates are in their range loops at the same time, each with a send to make
C14_Witness ==
    /\ Cardinality(Updating) = 2
    /\ \A p \in Updating : todo[p] # {}
    /\ Cardinality(DOMAIN feeds) = 2

\* C15: a worker that has not terminated is at a receive from its input, at line 18
\* or in the select, never at a send on the sink alone: as long as the input is open
\* the owner's next send is taken at once; only a close terminates the worker.
C15_AlwaysReady ==
    /\ wpc[1] \in {"await", "select", "done"}
    /\ (wpc[1] # "done" => RecvReady(1))
    /\ (wpc[1] = "done" => Closed(1))
    /\ ((~Closed(1) /\ nsub < MaxSubmit) => ENABLED Submit)

\* the worker holds 3 for a consumer that has not received since 1, the input is open
C15_Witness ==
    /\ wpc[1] = "select"
    /\ latest[1] = 3
    /\ ~Closed(1)
    /\ Len(received["s1"]) = 1
    /\ received["s1"][1].val = 1

\* C16: the map holds one feed per registered sink, no feed under two sinks, and
\* every feed in it was made by NewFeed for the sink it is keyed under, is open and
\* has a worker that has not terminated; a nil map has no entry.
C16_MappingInvariant ==
    /\ DOMAIN feeds \subseteq Sinks
    /\ SubscriptionCount <= Cardinality(Sinks)
    /\ (feedsNil => feeds = EmptyMap)
    /\ \A s, t \in DOMAIN feeds : s # t => feeds[s] # feeds[t]
    /\ \A s \in DOMAIN feeds :
          /\ feeds[s] \in 1..nfeeds
          /\ sinkOf[feeds[s]] = s
          /\ ~Closed(feeds[s])
          /\ wpc[feeds[s]] \in {"await", "select"}

\* s1 was unsubscribed and subscribed again: its first feed is closed and its
\* worker terminated, the map holds the second, whose worker holds a value
C16_Witness ==
    /\ DOMAIN feeds = {"s1"}
    /\ feeds["s1"] = 2
    /\ sinkOf[1] = "s1" /\ Closed(1) /\ wpc[1] = "done"
    /\ wpc[2] = "select"
    /\ \A p \in Procs : pc[p] = "idle"

\* C17: whatever the goroutines call, no feed is closed twice, and every feed an
\* Update has yet to send to is open when the send is made.
C17_NoFatalMisuse ==
    /\ [](\A f \in Feeds : closes[f] <= 1)
    /\ [](\A p \in Updating : \A f \in todo[p] : ~Closed(f))
    /\ [][\A f \in Feeds : closes'[f] > closes[f] => ~Closed(f)]_vars
    /\ [][\A p \in Procs : \A f \in Feeds :
            (pc[p] = "fanout" /\ f \in todo[p] /\ f \notin todo'[p]) => ~Closed(f)']_vars

\* an Update has a send to make while another feed, the spare one of a duplicate
\* Subscribe, is closed
C17_Witness ==
    \E p \in Updating :
        /\ todo[p] = {1}
        /\ Closed(2)
        /\ sinkOf[1] = sinkOf[2]

\* goroutines inside Subscribe, Unsubscribe or UnsubscribeAll
Managing == {p \in Procs : pc[p] \notin {"idle", "fanout"}}
\* workers that have not terminated
Live == {f \in Feeds : wpc[f] \in {"await", "select"}}

\* C18: the worker of every closed feed terminates, received from or not, and a
\* terminated worker is of a closed feed that is not in the map; when no Subscribe,
\* Unsubscribe or UnsubscribeAll is in progress the open feeds are the feeds of the
\* map, and the workers that have not terminated come to be exactly those.
C18_NoWorkerLeak ==
    /\ \A f \in Feeds : Closed(f) ~> (wpc[f] = "done")
    /\ [](\A f \in Feeds : wpc[f] = "done" => (Closed(f) /\ f \notin Range(feeds)))
    /\ [](Managing = {} =>
            {f \in Feeds : wpc[f] # "none" /\ ~Closed(f)} = Range(feeds))
    /\ (Managing = {}) ~> (Managing # {} \/ Live = Range(feeds))

\* the spare worker of a duplicate Subscribe and the worker of the unsubscribed s1
\* both terminated; an Update was made and nothing was ever received
C18_Witness ==
    /\ Managing = {}
    /\ feeds = EmptyMap
    /\ nfeeds = 2 /\ sinkOf[1] = "s1" /\ sinkOf[2] = "s1"
    /\ Live = {}
    /\ nsub >= 1
    /\ \A s \in Sinks : received[s] = <<>>

\* C19: no submission is received twice: the values received strictly increase, a
\* pending value is newer than everything received, a delivery leaves the worker
\* at line 18 with nothing pending, where no receive on the sink can proceed, and
\* only a new submission gives it a pending value again.
C19_AtMostOnce ==
    /\ [](\A i, j \in 1..Len(received["s1"]) :
            i < j => received["s1"][i].val < received["s1"][j].val)
    /\ [](wpc[1] = "select" => latest[1] > LastVal("s1"))
    /\ [](wpc[1] = "await" => ~ENABLED Deliver(1))
    /\ [][Deliver(1) => wpc'[1] = "await"]_vars
    /\ [][(wpc[1] = "await" /\ wpc'[1] = "select") => nsub' = nsub + 1]_vars

\* 2 was delivered; the input is open, nothing is pending and nothing newer was
\* submitted: a receive on the sink blocks
C19_Witness ==
    /\ Len(received["s1"]) = 1
    /\ received["s1"][1].val = 2
    /\ nsub = 2
    /\ wpc[1] = "await"
    /\ ~Closed(1)
    /\ ~ENABLED Deliver(1)

\* the value the next receive on s returns, 0 when the relay registered for s holds none
Pending(s) ==
    IF s \in DOMAIN feeds /\ wpc[feeds[s]] = "select" THEN latest[feeds[s]] ELSE Nil

\* C20, as claimed: when all Update calls have returned, the pending values held
\* for the registered sinks are the value of one and the same Update call.
C20_Agreement ==
    (Updating = {} /\ Managing = {}) =>
        \A s, t \in DOMAIN feeds :
            (Pending(s) # Nil /\ Pending(t) # Nil) => Pending(s) = Pending(t)

\* C20, amended: when all Update calls have returned, the pending value held for a
\* registered sink is the value of the Update call that began last or of one that
\* was in progress when it began; after Update calls that did not overlap it is the
\* value of the last for every sink.
C20_AmongRivals ==
    Updating = {} =>
        /\ \A s \in DOMAIN feeds : Pending(s) # Nil => Pending(s) \in rivals
        /\ nsub \in rivals \/ nsub = 0
        /\ rivals \subseteq 1..nsub

\* two Update calls overlapped and returned: s1 holds the value of the one, s2 the
\* value of the other
C20_Witness ==
    /\ Updating = {} /\ Managing = {}
    /\ rivals = {1, 2}
    /\ Pending("s1") = 2
    /\ Pending("s2") = 1

====
